---- MODULE Spec2Model ----
(***************************************************************************)
(* generate-index.py: fetch the packages of an account and their versions  *)
(* from the GitHub REST API, then render one static index page.            *)
(*                                                                         *)
(* Text is modelled as a sequence of one-character strings, so that        *)
(* substring tests, replace(), sorting and JSON encoding are computed      *)
(* character by character as the Python code computes them.                *)
(***************************************************************************)
EXTENDS Integers, Sequences, FiniteSets, TLC

(* ------------------------------------------------------------------ *)
(* Bounds of the model                                                 *)
(* ------------------------------------------------------------------ *)

\* longest list-packages response that is explored
MaxPkgs == 2
\* longest list-versions response that is explored
MaxVers == 2

(* ------------------------------------------------------------------ *)
(* Text helpers (Python str operations)                                *)
(* ------------------------------------------------------------------ *)

\* code points of the characters that occur in compared names
CodePoint(c) ==
    CASE c = "." -> 46 [] c = "/" -> 47 [] c = "0" -> 48 [] c = "1" -> 49
      [] c = "2" -> 50 [] c = "<" -> 60 [] c = ">" -> 62 [] c = "A" -> 65
      [] c = "B" -> 66 [] c = "a" -> 97 [] c = "b" -> 98 [] c = "c" -> 99
      [] c = "i" -> 105 [] c = "p" -> 112 [] c = "r" -> 114 [] c = "s" -> 115
      [] c = "t" -> 116

\* Python's str < str: lexicographic by code point, a proper prefix is smaller
RECURSIVE StrLess(_, _)
StrLess(a, b) ==
    IF b = <<>> THEN FALSE
    ELSE IF a = <<>> THEN TRUE
    ELSE IF Head(a) = Head(b) THEN StrLess(Tail(a), Tail(b))
    ELSE CodePoint(Head(a)) < CodePoint(Head(b))

\* needle in hay
Contains(hay, needle) ==
    \E k \in 0..(Len(hay) - Len(needle)) :
        SubSeq(hay, k + 1, k + Len(needle)) = needle

\* s.replace(old, new) for a one-character old
RECURSIVE Replace(_, _, _)
Replace(s, old, new) ==
    IF s = <<>> THEN <<>>
    ELSE (IF Head(s) = old THEN new ELSE <<Head(s)>>) \o Replace(Tail(s), old, new)

UrlBase == <<"h","t","t","p","s",":","/","/","a","p","i",".","g","i","t","h","u","b",".","c","o","m","/","u","s","e","r","s","/">>
ListQuery == <<"/","p","a","c","k","a","g","e","s","?","p","a","c","k","a","g","e","_","t","y","p","e","=","m","a","v","e","n","&","p","e","r","_","p","a","g","e","=","1","0","0">>
MavenPath == <<"/","p","a","c","k","a","g","e","s","/","m","a","v","e","n","/">>
VersionsQuery == <<"/","v","e","r","s","i","o","n","s","?","p","e","r","_","p","a","g","e","=","5","0">>
StrVersions == <<"v","e","r","s","i","o","n","s">>
StrPackages == <<"p","a","c","k","a","g","e","s">>
PctSlash == <<"%","2","F">>
StrMaven == <<"m","a","v","e","n">>
\* the text that closes an HTML script block
ScriptClose == <<"<","/","s","c","r","i","p","t",">">>

(* ------------------------------------------------------------------ *)
(* Inputs: command line, upstream responses, file system               *)
(* ------------------------------------------------------------------ *)

ScriptName == <<"g">>
OwnerArg == <<"a","c","m","e">>
RepoArg == <<"w","i","d","g","e","t","s">>
ShaArg == <<"0","1","2","3","4","5","6","7","8","9","a","b">>
TokenArg == <<"t","1">>
\* the token of the second run, which differs from the first in nothing else
OtherToken == <<"t","2">>

\* every command line: the script name followed by zero to four arguments
ArgvChoices ==
    { SubSeq(<<ScriptName, OwnerArg, RepoArg, TokenArg, ShaArg>>, 1, n) : n \in 1..5 }

PkgKeys == {"name", "package_type", "html_url", "created_at", "updated_at"}
VerKeys == {"name", "created_at", "updated_at", "html_url"}

\* A raw JSON object: the keys it has and their values (<<>> where absent).
FullPkg(name, url) ==
    [has |-> PkgKeys,
     val |-> [name |-> name, package_type |-> StrMaven, html_url |-> url,
              created_at |-> <<"1">>, updated_at |-> <<"2">>]]
NameOnlyPkg(name) ==
    [has |-> {"name"},
     val |-> [name |-> name, package_type |-> <<>>, html_url |-> <<>>,
              created_at |-> <<>>, updated_at |-> <<>>]]
EmptyObj ==
    [has |-> {},
     val |-> [name |-> <<>>, package_type |-> <<>>, html_url |-> <<>>,
              created_at |-> <<>>, updated_at |-> <<>>]]
FullVer(name) ==
    [has |-> VerKeys,
     val |-> [name |-> name, package_type |-> <<>>, html_url |-> <<"h", "\"">>,
              created_at |-> <<"1">>, updated_at |-> <<"2">>]]

\* package descriptors the upstream may list
PkgDescs ==
    { FullPkg(<<"B">>, ScriptClose), NameOnlyPkg(<<"a", "/", "b">>), EmptyObj }
\* version descriptors the upstream may list
VerDescs == { FullVer(<<"1", ".", "0">>), EmptyObj }

\* sequences of distinct elements of S, of length at most n (the upstream
\* lists every package and every version once)
SeqsUpTo(S, n) ==
    UNION { { s \in [1..k -> S] : \A a, b \in 1..k : a # b => s[a] # s[b] } :
              k \in 0..n }

\* a decoded JSON value: a list of objects, or a single (error) object
JsonList(items) == [kind |-> "list", items |-> items, keys |-> {}]
\* an error object such as {"message": ...}; the empty dict is EmptyDict
JsonObject == [kind |-> "object", items |-> <<>>, keys |-> {"message"}]
EmptyDict == [kind |-> "object", items |-> <<>>, keys |-> {}]

\* what urlopen + json.loads can end with
Ok(v) == [kind |-> "ok", value |-> v, code |-> 0, body |-> <<>>]
HTTPError(code) ==
    [kind |-> "HTTPError", value |-> JsonObject, code |-> code, body |-> <<"e">>]
URLError == [kind |-> "URLError", value |-> JsonObject, code |-> 0, body |-> <<>>]

Failures == { HTTPError(404), URLError, Ok(JsonObject) }
ListOutcomes == { Ok(JsonList(s)) : s \in SeqsUpTo(PkgDescs, MaxPkgs) } \cup Failures
VersionOutcomes == { Ok(JsonList(s)) : s \in SeqsUpTo(VerDescs, MaxVers) } \cup Failures

(* ------------------------------------------------------------------ *)
(* api_get                                                             *)
(* ------------------------------------------------------------------ *)

\* the request api_get builds: the token goes into the Authorization header
Request(url, token) ==
    [url |-> url,
     headers |-> [Accept |-> "application/vnd.github+json",
                  Authorization |-> <<"B","e","a","r","e","r"," ">> \o token,
                  ApiVersion |-> "2022-11-28"]]

\* the diagnostic of the except branch, written to sys.stderr
ApiErrorLine(code, url, body) ==
    [fmt |-> "API error {e.code} for {url}: {body}", args |-> <<code, url, body>>]

\* mutant: the except clause is missing, an HTTPError escapes
api_get_uncaught(url, token, outcome) ==
    [ret |-> IF outcome.kind = "ok" THEN outcome.value ELSE JsonList(<<>>),
     raised |-> IF outcome.kind = "ok" THEN "" ELSE outcome.kind,
     err |-> <<>>]

\* mutant: the diagnostic also prints the request's headers
api_get_logs_headers(url, token, outcome) ==
    [ret |-> IF outcome.kind = "ok" THEN outcome.value ELSE JsonList(<<>>),
     raised |-> IF outcome.kind \in {"ok", "HTTPError"} THEN "" ELSE outcome.kind,
     err |-> IF outcome.kind = "HTTPError"
             THEN << [fmt |-> ApiErrorLine(outcome.code, url, outcome.body).fmt,
                      args |-> << outcome.code, url, outcome.body,
                                  Request(url, token).headers.Authorization >>] >>
             ELSE <<>>]

\* api_get(url, token) when urlopen/json.loads ends with `outcome`:
\* the value returned (of no use when an exception escapes), the exception
\* that escapes ("" if none) and the lines written to stderr.  Only
\* HTTPError is caught.
api_get(url, token, outcome) ==
    [ret |-> IF outcome.kind = "ok" THEN outcome.value
            ELSE IF Contains(url, StrVersions) \/ Contains(url, StrPackages)
                  THEN JsonList(<<>>)
                  ELSE EmptyDict,
     raised |-> IF outcome.kind \in {"ok", "HTTPError"} THEN "" ELSE outcome.kind,
     err |-> IF outcome.kind = "HTTPError"
             THEN << ApiErrorLine(outcome.code, url, outcome.body) >>
             ELSE <<>>]

(* ------------------------------------------------------------------ *)
(* fetch_packages: pure parts                                          *)
(* ------------------------------------------------------------------ *)

\* dict.get(key, default)
Get(d, key, default) == IF key \in d.has THEN d.val[key] ELSE default

ListUrl(owner) == UrlBase \o owner \o ListQuery

VersionsUrl(owner, name) ==
    UrlBase \o owner \o MavenPath \o Replace(name, "/", PctSlash) \o VersionsQuery

VersionRecord(v) ==
    [name |-> Get(v, "name", <<>>),
     created_at |-> Get(v, "created_at", <<>>),
     updated_at |-> Get(v, "updated_at", <<>>),
     html_url |-> Get(v, "html_url", <<>>)]

\* mutant: the isinstance guard is missing, an object is iterated by its keys
VersionRecords_unguarded(versions) ==
    IF versions.kind = "list"
    THEN [k \in 1..Len(versions.items) |-> VersionRecord(versions.items[k])]
    ELSE [k \in 1..Cardinality(versions.keys) |-> VersionRecord(EmptyObj)]

\* the versions comprehension: a non-list response contributes nothing
VersionRecords(versions) ==
    IF versions.kind = "list"
    THEN [k \in 1..Len(versions.items) |-> VersionRecord(versions.items[k])]
    ELSE <<>>

\* mutant: one default is not the empty string
PackageRecord_null_url(pkg, versions) ==
    [name |-> Get(pkg, "name", <<>>),
     package_type |-> Get(pkg, "package_type", StrMaven),
     html_url |-> Get(pkg, "html_url", <<"N","o","n","e">>),
     created_at |-> Get(pkg, "created_at", <<>>),
     updated_at |-> Get(pkg, "updated_at", <<>>),
     versions |-> VersionRecords(versions)]

PackageRecord(pkg, versions) ==
    [name |-> Get(pkg, "name", <<>>),
     package_type |-> Get(pkg, "package_type", StrMaven),
     html_url |-> Get(pkg, "html_url", <<>>),
     created_at |-> Get(pkg, "created_at", <<>>),
     updated_at |-> Get(pkg, "updated_at", <<>>),
     versions |-> VersionRecords(versions)]

\* list.sort(key=name): stable, ascending by Python's str order
RECURSIVE InsertByName(_, _)
InsertByName(r, s) ==
    IF s = <<>> THEN <<r>>
    ELSE IF StrLess(r.name, Head(s).name) THEN <<r>> \o s
    ELSE <<Head(s)>> \o InsertByName(r, Tail(s))

\* mutant: the sort is left out
SortByName_unsorted(s) == s

RECURSIVE SortByName(_)
SortByName(s) ==
    IF s = <<>> THEN <<>>
    ELSE InsertByName(s[Len(s)], SortByName(SubSeq(s, 1, Len(s) - 1)))

\* the progress line printed before each list-versions call
FetchingLine(name) == [fmt |-> "  Fetching versions for: {name}", args |-> <<name>>]
UnexpectedLine(v) == [fmt |-> "Unexpected response: {packages}", args |-> <<v>>]

(* ------------------------------------------------------------------ *)
(* generate_html                                                       *)
(* ------------------------------------------------------------------ *)

KeyChars(k) ==
    CASE k = "name" -> <<"n","a","m","e">>
      [] k = "package_type" -> <<"p","a","c","k","a","g","e","_","t","y","p","e">>
      [] k = "html_url" -> <<"h","t","m","l","_","u","r","l">>
      [] k = "created_at" -> <<"c","r","e","a","t","e","d","_","a","t">>
      [] k = "updated_at" -> <<"u","p","d","a","t","e","d","_","a","t">>
      [] k = "versions" -> <<"v","e","r","s","i","o","n","s">>

\* json.dumps of one character of a str, ensure_ascii=False: the quote, the
\* backslash and control characters are escaped (of the control characters
\* only these three occur in the texts explored), every other character,
\* "<" and "/" included, is copied
JsonEscapeChar(c) ==
    CASE c = "\"" -> <<"\\", "\"">>
      [] c = "\\" -> <<"\\", "\\">>
      [] c = "\n" -> <<"\\", "n">>
      [] c = "\r" -> <<"\\", "r">>
      [] c = "\t" -> <<"\\", "t">>
      [] OTHER -> <<c>>

RECURSIVE JsonEscape(_)
JsonEscape(s) ==
    IF s = <<>> THEN <<>> ELSE JsonEscapeChar(Head(s)) \o JsonEscape(Tail(s))

JsonString(s) == <<"\"">> \o JsonEscape(s) \o <<"\"">>

\* texts joined by the item separator ", "
RECURSIVE JsonJoin(_)
JsonJoin(texts) ==
    IF texts = <<>> THEN <<>>
    ELSE IF Len(texts) = 1 THEN texts[1]
    ELSE texts[1] \o <<",", " ">> \o JsonJoin(Tail(texts))

JsonMember(k, text) == JsonString(KeyChars(k)) \o <<":", " ">> \o text

JsonArray(texts) == <<"[">> \o JsonJoin(texts) \o <<"]">>

\* a version record, keys in insertion order
JsonVersion(v) ==
    <<"{">> \o JsonJoin(<< JsonMember("name", JsonString(v.name)),
                          JsonMember("created_at", JsonString(v.created_at)),
                          JsonMember("updated_at", JsonString(v.updated_at)),
                          JsonMember("html_url", JsonString(v.html_url)) >>)
           \o <<"}">>

\* a package record, keys in insertion order
JsonPackage(p) ==
    <<"{">> \o JsonJoin(<< JsonMember("name", JsonString(p.name)),
                          JsonMember("package_type", JsonString(p.package_type)),
                          JsonMember("html_url", JsonString(p.html_url)),
                          JsonMember("created_at", JsonString(p.created_at)),
                          JsonMember("updated_at", JsonString(p.updated_at)),
                          JsonMember("versions",
                              JsonArray([k \in 1..Len(p.versions) |->
                                             JsonVersion(p.versions[k])])) >>)
           \o <<"}">>

\* json.dumps(packages, ensure_ascii=False)
json_dumps(packages) ==
    JsonArray([k \in 1..Len(packages) |-> JsonPackage(packages[k])])

\* sum(len(p['versions']) for p in packages)
RECURSIVE TotalVersions(_)
TotalVersions(packages) ==
    IF packages = <<>> THEN 0
    ELSE Len(Head(packages).versions) + TotalVersions(Tail(packages))

\* commit_sha[:7] if commit_sha else ''
ShortSha(commit_sha) ==
    IF Len(commit_sha) > 7 THEN SubSeq(commit_sha, 1, 7) ELSE commit_sha

\* datetime.now(timezone.utc).strftime(...): one fixed instant per run
BuildTime == <<"n","o","w">>

\* The single-brace replacement fields of the template literal, in text order
\* (doubled braces are literal braces).
TemplateFields ==
    << "owner", "repo", "owner", "repo", "build_time", "pkg_count", "ver_count",
       "owner", "repo", "commit_sha", "short_sha", "owner", "repo",
       "owner", "repo", "build_time", "pkg_json" >>

\* The names an expression inside generate_html can resolve: its parameters
\* and locals, then the module's globals.
GenerateHtmlScope ==
    { "packages", "owner", "repo", "commit_sha",
      "build_time", "short_sha", "pkg_json", "total_versions" }
    \cup { "json", "os", "sys", "urllib", "datetime", "timezone",
           "api_get", "fetch_packages", "generate_html", "main" }

\* The keyword arguments given to str.format.
FormatKwargs ==
    { "owner", "repo", "build_time", "commit_sha", "short_sha",
      "pkg_count", "ver_count", "pkg_json" }

\* The template literal carries the f prefix, so Python evaluates its
\* replacement fields as expressions, left to right, when the return
\* statement runs: the first name that is not in scope raises NameError.
FStringRaises ==
    IF \E k \in 1..Len(TemplateFields) : TemplateFields[k] \notin GenerateHtmlScope
    THEN "NameError" ELSE ""

\* str.format then parses the evaluated text, in which every doubled brace
\* has become a single one: its first replacement field is the body of the
\* first CSS rule (":root {"), which is no keyword argument.
FormatRaises == IF "\n    --bg" \notin FormatKwargs THEN "KeyError" ELSE ""

\* generate_html(packages, owner, repo, commit_sha): the locals computed
\* before the return statement, the exception that escapes ("" if none)
\* and the document returned (<<>> if none).
generate_html(packages, owner, repo, commit_sha) ==
    LET build_time == BuildTime
        short_sha == ShortSha(commit_sha)
        pkg_json == json_dumps(packages)
        total_versions == TotalVersions(packages)
        raised == IF FStringRaises # "" THEN FStringRaises ELSE FormatRaises
    IN  [pkg_json |-> pkg_json,
         total_versions |-> total_versions,
         raised |-> raised,
         doc |-> IF raised # "" THEN <<>>
                 ELSE << [owner |-> owner, repo |-> repo, build_time |-> build_time,
                          commit_sha |-> commit_sha, short_sha |-> short_sha,
                          pkg_count |-> Len(packages), ver_count |-> total_versions,
                          pkg_json |-> pkg_json] >>]

(* ------------------------------------------------------------------ *)
(* State                                                               *)
(* ------------------------------------------------------------------ *)

VARIABLES
    argv,         \* sys.argv
    pc,           \* where main is: start, list_call, versions_call, fetched, exited
    packages,     \* fetch_packages: the value api_get returned for the listing
    i,            \* fetch_packages: index of the package whose versions are awaited
    result,       \* fetch_packages: the records appended so far; then main's packages
    calls,        \* every request handed to urlopen, in order
    returned,     \* the outcome and the result of every finished api_get, in order
    stdout,       \* lines printed to sys.stdout
    stderr,       \* lines printed to sys.stderr
    exit_status,  \* <<>> while running, then <<status>>
    exc,          \* the exception that ended the run ("" if none)
    pkg_json,     \* generate_html: the local of that name (<<>> before it is set)
    html,         \* main: the document generate_html returned (<<>> if none)
    site_dir,     \* whether the directory _site exists
    site_file,    \* the content of _site/index.html (<<>> if absent)
    fs_ops,       \* the file system calls main has made
    argv2,        \* a second run: the same command line but for the token,
    calls2,       \*   given the same upstream outcomes: its requests,
    stdout2,      \*   its standard output,
    stderr2,      \*   its standard error
    html2         \*   and the document generate_html returned to it

vars == << argv, pc, packages, i, result, calls, returned, stdout, stderr,
           exit_status, exc, pkg_json, html, site_dir, site_file, fs_ops,
           argv2, calls2, stdout2, stderr2, html2 >>

\* main's locals, read from sys.argv
owner == argv[2]
repo == argv[3]
token == argv[4]
commit_sha == IF Len(argv) > 4 THEN argv[5] ELSE <<>>
token2 == argv2[4]

\* a page left in _site by an earlier run
StaleDoc ==
    [owner |-> OwnerArg, repo |-> RepoArg, build_time |-> <<"o","l","d">>,
     commit_sha |-> <<>>, short_sha |-> <<>>, pkg_count |-> 0, ver_count |-> 0,
     pkg_json |-> <<"[", "]">>]

UsageLine == [fmt |-> "Usage: python3 generate-index.py <owner> <repo> <token> [commit_sha]", args |-> <<>>]
FetchingPackagesLine(o, r) == [fmt |-> "Fetching packages for {owner}/{repo}...", args |-> <<o, r>>]
FoundLine(n) == [fmt |-> "Found {len(packages)} packages", args |-> <<n>>]
GeneratedLine(n) == [fmt |-> "Generated _site/index.html ({len(html)} bytes)", args |-> <<n>>]
\* what the interpreter writes for an uncaught exception
TracebackLine(e) == [fmt |-> "Traceback (most recent call last): ...", args |-> <<e>>]

Init ==
    /\ argv \in ArgvChoices
    /\ argv2 = [k \in 1..Len(argv) |-> IF k = 4 THEN OtherToken ELSE argv[k]]
    /\ pc = "start"
    /\ packages = JsonList(<<>>)
    /\ i = 0
    /\ result = <<>>
    /\ calls = <<>>
    /\ returned = <<>>
    /\ stdout = <<>>
    /\ stderr = <<>>
    /\ exit_status = <<>>
    /\ exc = ""
    /\ pkg_json = <<>>
    /\ html = <<>>
    /\ \E fs \in { << FALSE, <<>> >>, << TRUE, << StaleDoc >> >> } :
           site_dir = fs[1] /\ site_file = fs[2]
    /\ fs_ops = <<>>
    /\ calls2 = <<>>
    /\ stdout2 = <<>>
    /\ stderr2 = <<>>
    /\ html2 = <<>>

(* ------------------------------------------------------------------ *)
(* Steps of main                                                       *)
(* ------------------------------------------------------------------ *)

\* mutant: the same package is asked for again
NextIndex_again(k) == k

\* `for pkg in packages`: the position after position k
NextIndex(k) == k + 1

\* mutant: the output directory is made before anything else
main_start_mkdir_first ==
    /\ pc = "start"
    /\ site_dir' = TRUE
    /\ fs_ops' = Append(fs_ops, "makedirs")
    /\ IF Len(argv) < 4
       THEN /\ stdout' = Append(stdout, UsageLine)
            /\ stdout2' = Append(stdout2, UsageLine)
            /\ exit_status' = <<1>>
            /\ pc' = "exited"
            /\ UNCHANGED << calls, calls2 >>
       ELSE /\ stdout' = Append(stdout, FetchingPackagesLine(owner, repo))
            /\ stdout2' = Append(stdout2, FetchingPackagesLine(argv2[2], argv2[3]))
            /\ calls' = Append(calls, Request(ListUrl(owner), token))
            /\ calls2' = Append(calls2, Request(ListUrl(argv2[2]), token2))
            /\ pc' = "list_call"
            /\ UNCHANGED exit_status
    /\ UNCHANGED << argv, argv2, packages, i, result, returned, stderr, stderr2,
                    exc, pkg_json, html, html2, site_file >>

\* main up to the first urlopen: the argument check, then fetch_packages
\* up to its list-packages request.
main_start ==
    /\ pc = "start"
    /\ IF Len(argv) < 4
       THEN /\ stdout' = Append(stdout, UsageLine)
            /\ stdout2' = Append(stdout2, UsageLine)
            /\ exit_status' = <<1>>
            /\ pc' = "exited"
            /\ UNCHANGED << calls, calls2 >>
       ELSE /\ stdout' = Append(stdout, FetchingPackagesLine(owner, repo))
            /\ stdout2' = Append(stdout2, FetchingPackagesLine(argv2[2], argv2[3]))
            /\ calls' = Append(calls, Request(ListUrl(owner), token))
            /\ calls2' = Append(calls2, Request(ListUrl(argv2[2]), token2))
            /\ pc' = "list_call"
            /\ UNCHANGED exit_status
    /\ UNCHANGED << argv, argv2, packages, i, result, returned, stderr, stderr2,
                    exc, pkg_json, html, html2, site_dir, site_file, fs_ops >>

\* The list-packages call ends with `outcome`; fetch_packages runs on to its
\* next urlopen, or returns to main, which runs on to the call of
\* generate_html.  An exception api_get lets through ends the process.
fetch_packages_list_returns(outcome) ==
    /\ pc = "list_call"
    /\ LET r == api_get(ListUrl(owner), token, outcome)
           r2 == api_get(ListUrl(argv2[2]), token2, outcome)
           first == Get(r.ret.items[1], "name", <<>>)
       IN  /\ returned' = Append(returned,
                   [outcome |-> outcome, ret |-> r.ret, raised |-> r.raised])
           /\ IF r.raised # ""
              THEN /\ stderr' = stderr \o r.err \o << TracebackLine(r.raised) >>
                   /\ stderr2' = stderr2 \o r2.err \o << TracebackLine(r2.raised) >>
                   /\ exc' = r.raised
                   /\ exit_status' = <<1>>
                   /\ pc' = "exited"
                   /\ UNCHANGED << packages, i, result, calls, calls2, stdout, stdout2 >>
              ELSE IF r.ret.kind # "list"
              THEN /\ packages' = r.ret
                   /\ stderr' = stderr \o r.err \o << UnexpectedLine(r.ret) >>
                   /\ stderr2' = stderr2 \o r2.err \o << UnexpectedLine(r2.ret) >>
                   /\ result' = <<>>
                   /\ stdout' = Append(stdout, FoundLine(0))
                   /\ stdout2' = Append(stdout2, FoundLine(0))
                   /\ pc' = "fetched"
                   /\ UNCHANGED << i, calls, calls2, exc, exit_status >>
              ELSE IF r.ret.items = <<>>
              THEN /\ packages' = r.ret
                   /\ stderr' = stderr \o r.err
                   /\ stderr2' = stderr2 \o r2.err
                   /\ result' = SortByName(<<>>)
                   /\ stdout' = Append(stdout, FoundLine(0))
                   /\ stdout2' = Append(stdout2, FoundLine(0))
                   /\ pc' = "fetched"
                   /\ UNCHANGED << i, calls, calls2, exc, exit_status >>
              ELSE /\ packages' = r.ret
                   /\ stderr' = stderr \o r.err
                   /\ stderr2' = stderr2 \o r2.err
                   /\ result' = <<>>
                   /\ i' = 1
                   /\ stdout' = Append(stdout, FetchingLine(first))
                   /\ stdout2' = Append(stdout2, FetchingLine(first))
                   /\ calls' = Append(calls, Request(VersionsUrl(owner, first), token))
                   /\ calls2' = Append(calls2,
                                       Request(VersionsUrl(argv2[2], first), token2))
                   /\ pc' = "versions_call"
                   /\ UNCHANGED << exc, exit_status >>
    /\ UNCHANGED << argv, argv2, pkg_json, html, html2, site_dir, site_file, fs_ops >>

\* The list-versions call of package i ends with `outcome`: the record is
\* appended, and the loop runs on to the next urlopen or, after the last
\* package, sorts and returns to main.
fetch_packages_versions_returns(outcome) ==
    /\ pc = "versions_call"
    /\ LET pkg == packages.items[i]
           name == Get(pkg, "name", <<>>)
           r == api_get(VersionsUrl(owner, name), token, outcome)
           r2 == api_get(VersionsUrl(argv2[2], name), token2, outcome)
           appended == Append(result, PackageRecord(pkg, r.ret))
           n == NextIndex(i)
           next == Get(packages.items[n], "name", <<>>)
       IN  /\ returned' = Append(returned,
                   [outcome |-> outcome, ret |-> r.ret, raised |-> r.raised])
           /\ IF r.raised # ""
              THEN /\ stderr' = stderr \o r.err \o << TracebackLine(r.raised) >>
                   /\ stderr2' = stderr2 \o r2.err \o << TracebackLine(r2.raised) >>
                   /\ exc' = r.raised
                   /\ exit_status' = <<1>>
                   /\ pc' = "exited"
                   /\ UNCHANGED << i, result, calls, calls2, stdout, stdout2 >>
              ELSE IF i < Len(packages.items)
              THEN /\ stderr' = stderr \o r.err
                   /\ stderr2' = stderr2 \o r2.err
                   /\ result' = appended
                   /\ i' = n
                   /\ stdout' = Append(stdout, FetchingLine(next))
                   /\ stdout2' = Append(stdout2, FetchingLine(next))
                   /\ calls' = Append(calls, Request(VersionsUrl(owner, next), token))
                   /\ calls2' = Append(calls2,
                                       Request(VersionsUrl(argv2[2], next), token2))
                   /\ UNCHANGED << pc, exc, exit_status >>
              ELSE /\ stderr' = stderr \o r.err
                   /\ stderr2' = stderr2 \o r2.err
                   /\ result' = SortByName(appended)
                   /\ stdout' = Append(stdout, FoundLine(Len(appended)))
                   /\ stdout2' = Append(stdout2, FoundLine(Len(appended)))
                   /\ pc' = "fetched"
                   /\ UNCHANGED << i, calls, calls2, exc, exit_status >>
    /\ UNCHANGED << argv, argv2, packages, pkg_json, html, html2, site_dir, site_file, fs_ops >>

\* main from the call of generate_html to the end: the document is written
\* only if generate_html returns one.
main_render_write ==
    /\ pc = "fetched"
    /\ LET g == generate_html(result, owner, repo, commit_sha)
           g2 == generate_html(result, argv2[2], argv2[3], commit_sha)
       IN  /\ pkg_json' = g.pkg_json
           /\ html' = g.doc
           /\ html2' = g2.doc
           /\ IF g.raised # ""
              THEN /\ stderr' = Append(stderr, TracebackLine(g.raised))
                   /\ stderr2' = Append(stderr2, TracebackLine(g.raised))
                   /\ exc' = g.raised
                   /\ exit_status' = <<1>>
                   /\ UNCHANGED << stdout, stdout2, site_dir, site_file, fs_ops >>
              ELSE /\ site_dir' = TRUE
                   /\ site_file' = g.doc
                   /\ fs_ops' = fs_ops \o << "makedirs", "write" >>
                   /\ stdout' = Append(stdout, GeneratedLine(Len(g.pkg_json)))
                   /\ stdout2' = Append(stdout2, GeneratedLine(Len(g.pkg_json)))
                   /\ exit_status' = <<0>>
                   /\ UNCHANGED << stderr, stderr2, exc >>
    /\ pc' = "exited"
    /\ UNCHANGED << argv, argv2, packages, i, result, calls, calls2, returned >>

Next ==
    \/ main_start
    \/ \E outcome \in ListOutcomes : fetch_packages_list_returns(outcome)
    \/ \E outcome \in VersionOutcomes : fetch_packages_versions_returns(outcome)
    \/ main_render_write

Spec == Init /\ [][Next]_vars

(* ------------------------------------------------------------------ *)
(* Properties                                                          *)
(* ------------------------------------------------------------------ *)

\* the value of a field of a raw descriptor, <<>> standing for "absent"
Field(d, key) == IF key \in d.has THEN d.val[key] ELSE <<>>

\* the raw version descriptors the upstream gave for the j-th listed package
\* (none when the call failed or answered with something else than a list)
GivenVersions(j) ==
    LET o == returned[j + 1].outcome
    IN  IF o.kind = "ok" /\ o.value.kind = "list" THEN o.value.items ELSE <<>>

\* generate_html has run past the line that sets pkg_json
GenerateHtmlRan == pkg_json # <<>>

\* C1: every run started with at least 3 arguments, whatever the upstream
\* calls end with, writes the document to _site/index.html and exits with
\* status zero; only a run with fewer than 3 arguments exits non-zero.
C1_AlwaysWritesAndExitsZero ==
    pc = "exited" =>
        IF Len(argv) < 4
        THEN exit_status # <<0>>
        ELSE exit_status = <<0>> /\ html # <<>> /\ site_file = html

\* C2: fetch_packages returns exactly one record per listed descriptor,
\* sorted by name ascending in code point order, and the versions of each
\* record are in the order the version-list response gave them.
C2_SortedOnePerDescriptor ==
    (pc = "fetched" /\ packages.kind = "list") =>
        /\ Len(result) = Len(packages.items)
        /\ \A j \in 1..(Len(result) - 1) :
               ~ StrLess(result[j + 1].name, result[j].name)
        /\ \E perm \in Permutations(1..Len(result)) :
               \A j \in 1..Len(result) :
                   LET r == result[perm[j]]
                       given == GivenVersions(j)
                   IN  /\ r.name = Field(packages.items[j], "name")
                       /\ Len(r.versions) = Len(given)
                       /\ \A k \in 1..Len(given) :
                              r.versions[k].name = Field(given[k], "name")

\* C2 witness: a listing that was not in name order, one package with two
\* versions, and fetch_packages has returned
C2_Witness ==
    /\ pc = "fetched"
    /\ packages.kind = "list"
    /\ Len(packages.items) = 2
    /\ StrLess(Field(packages.items[2], "name"), Field(packages.items[1], "name"))
    /\ \E j \in 1..Len(result) :
           /\ Len(result[j].versions) = 2
           /\ result[j].versions[1].name # result[j].versions[2].name

\* the lines of a stream that were printed with format text f
LinesOf(stream, f) == { k \in 1..Len(stream) : stream[k].fmt = f }

ApiErrorFmt == ApiErrorLine(0, <<>>, <<>>).fmt
UnexpectedFmt == UnexpectedLine(JsonObject).fmt

\* the finished calls that ended with a non-success HTTP status
HttpFailed == { j \in 1..Len(returned) : returned[j].outcome.kind = "HTTPError" }

\* the finished list-versions calls answered with something else than a list
NonListVersions ==
    { j \in 2..Len(returned) :
        /\ returned[j].outcome.kind = "ok"
        /\ returned[j].outcome.value.kind # "list" }

\* C3: a call that ends with a non-success HTTP status does not raise: one
\* diagnostic with the status code, the URL and the body goes to stderr and
\* the call returns an empty list; when it was the version-list call of a
\* package, that package still gets a record, with zero versions, and the
\* version-list call of the next package is still issued.
C3_HttpErrorAbsorbed ==
    /\ Cardinality(LinesOf(stderr, ApiErrorFmt)) = Cardinality(HttpFailed)
    /\ \A j \in HttpFailed :
           LET o == returned[j].outcome
           IN  /\ returned[j].raised = ""
               /\ returned[j].ret = JsonList(<<>>)
               /\ \E k \in LinesOf(stderr, ApiErrorFmt) :
                      stderr[k].args = << o.code, calls[j].url, o.body >>
               /\ j >= 2 =>
                      /\ \E k \in 1..Len(result) :
                             /\ result[k].name = Field(packages.items[j - 1], "name")
                             /\ result[k].versions = <<>>
                      /\ j - 1 < Len(packages.items) =>
                             /\ Len(calls) >= j + 1
                             /\ calls[j + 1].url =
                                    VersionsUrl(owner, Field(packages.items[j], "name"))

\* C3 witness: the version-list call of the first of two packages failed
\* with an HTTP status and fetch_packages has returned
C3_Witness ==
    /\ pc = "fetched"
    /\ Len(returned) = 3
    /\ returned[2].outcome.kind = "HTTPError"
    /\ returned[3].outcome.kind = "ok"

C5_TokenNotLogged ==
    /\ stdout2 = stdout
    /\ stderr2 = stderr
    /\ html2 = html
    /\ Len(calls2) = Len(calls)
    /\ \A j \in 1..Len(calls) :
           /\ calls2[j].url = calls[j].url
           /\ calls2[j].headers.Accept = calls[j].headers.Accept
           /\ calls2[j].headers.ApiVersion = calls[j].headers.ApiVersion
           /\ calls[j].headers.Authorization = <<"B","e","a","r","e","r"," ">> \o token
           /\ calls2[j].headers.Authorization = <<"B","e","a","r","e","r"," ">> \o token2

\* C5 witness: two runs with different tokens, both of which sent the token
\* upstream and wrote diagnostics of both kinds of failure
C5_Witness ==
    /\ pc = "exited"
    /\ Len(argv) >= 4
    /\ token # token2
    /\ Len(calls) >= 2
    /\ LinesOf(stderr, ApiErrorFmt) # {}
    /\ exc = "NameError"

VersionFields == {"name", "created_at", "updated_at", "html_url"}
PackageFields == {"name", "package_type", "html_url", "created_at", "updated_at"}

\* record r was assembled from the j-th listed descriptor, and every field
\* absent from the raw package or version descriptor is the empty string,
\* an absent package type being typeDefault
AssembledWithDefaults(r, j, typeDefault) ==
    LET d == packages.items[j]
        given == GivenVersions(j)
    IN  /\ r.name = Field(d, "name")
        /\ \A f \in PackageFields \ d.has :
               r[f] = (IF f = "package_type" THEN typeDefault ELSE <<>>)
        /\ Len(r.versions) = Len(given)
        /\ \A k \in 1..Len(given) :
               \A f \in VersionFields \ given[k].has : r.versions[k][f] = <<>>

\* every record assembled so far comes from its own descriptor in that way
AllAssembledWithDefaults(typeDefault) ==
    packages.kind = "list" =>
        \E perm \in Permutations(1..Len(result)) :
            \A j \in 1..Len(result) :
                AssembledWithDefaults(result[perm[j]], j, typeDefault)

\* C6 as claimed: in every package record and version record, each field
\* missing from the raw descriptor, the package type included, is the
\* empty string.
C6_MissingFieldsEmpty == AllAssembledWithDefaults(<<>>)

\* C6 amended: each field missing from the raw descriptor is the empty
\* string, except a missing package type, which is "maven".
C6_MissingFieldsDefaulted == AllAssembledWithDefaults(StrMaven)

\* C6 witness: fetch_packages has returned a record made from a package
\* descriptor without any field, with a version without any field
C6_Witness ==
    /\ pc = "fetched"
    /\ packages.kind = "list"
    /\ \E j \in 1..Len(packages.items) :
           /\ packages.items[j].has = {}
           /\ \E k \in 1..Len(GivenVersions(j)) : GivenVersions(j)[k].has = {}

\* C7: whatever the records contain, the serialization embedded after
\* "const PACKAGES =" cannot end the script block early: it does not
\* contain the text that closes a script block.
C7_ScriptBlockNotClosed == GenerateHtmlRan => ~ Contains(pkg_json, ScriptClose)

\* C8: for every sequence of records passed to generate_html, the document
\* it returns shows a package count equal to the number of records and a
\* version count equal to the sum of the lengths of their version sequences.
C8_CountsDisplayed ==
    GenerateHtmlRan =>
        /\ html # <<>>
        /\ html[1].pkg_count = Len(result)
        /\ html[1].ver_count = TotalVersions(result)

\* the request of the list-versions call of the j-th listed package
VersionsUrlOf(j) == VersionsUrl(owner, Field(packages.items[j], "name"))

\* the number of packages the listing gave (none if it was not a list)
Listed == IF packages.kind = "list" THEN Len(packages.items) ELSE 0

C10_WriteOnlyAtEnd ==
    [][ (site_dir' # site_dir \/ site_file' # site_file \/ fs_ops' # fs_ops) =>
            /\ pc = "fetched"
            /\ Len(argv) >= 4
            /\ Len(calls) = Len(returned)
            /\ fs_ops = <<>>
            /\ html' # <<>>
            /\ site_dir'
            /\ site_file' = html'
            /\ pc' = "exited" ]_vars

\* C10 witness: a run that ended with an exception raised while rendering,
\* an earlier page still in place
C10_Witness ==
    /\ pc = "exited"
    /\ exc = "NameError"
    /\ GenerateHtmlRan
    /\ site_file = << StaleDoc >>
    /\ fs_ops = <<>>

====
